---- MODULE Spec2Model ----
(***************************************************************************)
(* cleanup-history: parse a bash history file with "#<timestamp>" marker   *)
(* lines, drop ignored commands, keep the newest timestamp per command,    *)
(* sort, and write the result back over the history file (src/src/lib.rs). *)
(*                                                                         *)
(* Text is a sequence of one-character strings.  A u32 is a natural number;*)
(* the overflow test of str::parse::<u32> is made on the decimal digits, so *)
(* that it is exact at 2^32 although TLC's own integers end at 2^31 - 1.    *)
(* The characters are ASCII: \d and the case-insensitive patterns are taken *)
(* on ASCII digits and letters.  Writes to stderr are taken to succeed.     *)
(***************************************************************************)
EXTENDS Naturals, Sequences, FiniteSets

VARIABLES
    file,            \* content of the history file on disk
    input,           \* run: the text read from the history file
    data,            \* HistoryIterator.data: the lines not yet consumed
    next_timestamp,  \* HistoryIterator.next_timestamp: Option<&str>
    command,         \* next(): the local command buffer
    timestamp,       \* next(): the local timestamp, Option<&str>, set at break
    history,         \* clean_history: HashMap<String, u32>
    new_commands,    \* clean_history: the sorted Vec<HistoryCommand>
    result,          \* what clean_history returned ("Ok" or an error message)
    stderr,          \* the error items written to stderr
    yielded,         \* log of the items next() returned, with the unit's last line
    pc,              \* position in run / clean_history / next / write_history
    rerun,           \* TRUE when the file read by this run was written by a run
    tmp,             \* write_history: content of the temporary file, if any
    tmp_dir          \* write_history: the directory of the temporary file

vars == <<file, input, data, next_timestamp, command, timestamp, history,
          new_commands, result, stderr, yielded, pc, rerun, tmp, tmp_dir>>

-----------------------------------------------------------------------------
(* Bounds of the explored inputs.                                           *)

MaxLines == 4

MaxRecords == 2

-----------------------------------------------------------------------------
(* Characters and strings.                                                  *)

\* The characters of the model in ASCII order (str::cmp compares bytes).
Ascii ==
    <<"\t", "\n", "\r", " ", "#", "+", "-", ".", "/",
      "0", "1", "2", "3", "4", "5", "6", "7", "8", "9", ";",
      "A", "C", "E", "K", "N", "O", "P", "S", "T",
      "a", "b", "c", "d", "e", "f", "h", "i", "k", "l", "m", "n", "o",
      "p", "r", "s", "t", "u", "w", "y", "~">>

Code(c) == CHOOSE i \in 1..Len(Ascii) : Ascii[i] = c

Digits == <<"0", "1", "2", "3", "4", "5", "6", "7", "8", "9">>

IsDigit(c) == \E i \in 1..Len(Digits) : Digits[i] = c

DigitVal(c) == (CHOOSE i \in 1..Len(Digits) : Digits[i] = c) - 1

IsWhitespace(c) == c \in {" ", "\t", "\r", "\n"}

\* Case folding of a case-insensitive regex, on the letters of the model.
Lower(c) ==
    CASE c = "A" -> "a" [] c = "C" -> "c" [] c = "E" -> "e" [] c = "K" -> "k"
      [] c = "N" -> "n" [] c = "O" -> "o" [] c = "P" -> "p" [] c = "S" -> "s"
      [] c = "T" -> "t" [] OTHER -> c

\* String::cmp: lexicographic on the bytes, a proper prefix is smaller.
RECURSIVE StrLess(_, _)
StrLess(a, b) ==
    IF b = <<>> THEN FALSE
    ELSE IF a = <<>> THEN TRUE
    ELSE IF Head(a) = Head(b) THEN StrLess(Tail(a), Tail(b))
    ELSE Code(Head(a)) < Code(Head(b))

\* The pattern p occurs in s at position i (1-based), ignoring case.
MatchAt(s, p, i) ==
    /\ i + Len(p) - 1 <= Len(s)
    /\ \A k \in 1..Len(p) : Lower(s[i + k - 1]) = Lower(p[k])

StartsWith(s, p) == MatchAt(s, p, 1)

Contains(s, p) == \E i \in 1..Len(s) : MatchAt(s, p, i)

-----------------------------------------------------------------------------
(* Option<T>: None is the empty sequence, Some(x) the one-element sequence. *)

None == <<>>

Some(x) == <<x>>

-----------------------------------------------------------------------------
(* str::lines, split_whitespace().join(" "), parse::<u32>, Display of u32.  *)

\* str::lines: split at "\n", drop one trailing "\r" of each line; a final
\* empty piece is not a line.
StripCr(l) ==
    IF Len(l) > 0 /\ l[Len(l)] = "\r" THEN SubSeq(l, 1, Len(l) - 1) ELSE l

RECURSIVE LinesFrom(_, _)
LinesFrom(text, cur) ==
    IF text = <<>> THEN (IF cur = <<>> THEN <<>> ELSE <<StripCr(cur)>>)
    ELSE IF Head(text) = "\n" THEN <<StripCr(cur)>> \o LinesFrom(Tail(text), <<>>)
    ELSE LinesFrom(Tail(text), Append(cur, Head(text)))

Lines(text) == LinesFrom(text, <<>>)

\* command.split_whitespace().collect::<Vec<_>>().join(" ")
RECURSIVE SplitWhitespace(_, _)
SplitWhitespace(s, cur) ==
    IF s = <<>> THEN (IF cur = <<>> THEN <<>> ELSE <<cur>>)
    ELSE IF IsWhitespace(Head(s))
         THEN (IF cur = <<>> THEN <<>> ELSE <<cur>>) \o SplitWhitespace(Tail(s), <<>>)
         ELSE SplitWhitespace(Tail(s), Append(cur, Head(s)))

RECURSIVE Join(_, _)
Join(words, sep) ==
    IF words = <<>> THEN <<>>
    ELSE IF Len(words) = 1 THEN words[1]
    ELSE words[1] \o sep \o Join(Tail(words), sep)

\* The command text taken as it was accumulated.
NormalizeNothing(s) == s

Normalize(s) == Join(SplitWhitespace(s, <<>>), <<" ">>)

\* The marker regex ^#\d+$ of HistoryIterator.
IsTimestampLine(line) ==
    /\ Len(line) >= 2
    /\ line[1] = "#"
    /\ \A i \in 2..Len(line) : IsDigit(line[i])

\* str::trim
RECURSIVE TrimStart(_)
TrimStart(s) ==
    IF s # <<>> /\ IsWhitespace(Head(s)) THEN TrimStart(Tail(s)) ELSE s

RECURSIVE TrimEnd(_)
TrimEnd(s) ==
    IF s # <<>> /\ IsWhitespace(s[Len(s)])
    THEN TrimEnd(SubSeq(s, 1, Len(s) - 1)) ELSE s

Trim(s) == TrimEnd(TrimStart(s))

\* str::trim_start_matches("#")
RECURSIVE TrimStartHash(_)
TrimStartHash(s) ==
    IF s # <<>> /\ Head(s) = "#" THEN TrimStartHash(Tail(s)) ELSE s

RECURSIVE StripZeros(_)
StripZeros(s) ==
    IF Len(s) > 1 /\ Head(s) = "0" THEN StripZeros(Tail(s)) ELSE s

\* u32::MAX = 4294967295, as decimal digits.
U32MaxDigits == <<"4", "2", "9", "4", "9", "6", "7", "2", "9", "5">>

\* The digits ds (no leading zero) denote a value above u32::MAX.
Overflows(ds) ==
    \/ Len(ds) > Len(U32MaxDigits)
    \/ /\ Len(ds) = Len(U32MaxDigits)
       /\ StrLess(U32MaxDigits, ds)

RECURSIVE Horner(_, _)
Horner(ds, acc) ==
    IF ds = <<>> THEN acc ELSE Horner(Tail(ds), acc * 10 + DigitVal(Head(ds)))

\* A parse that keeps the nine low-order digits of a value above u32::MAX.
ParseU32Truncating(s) ==
    LET ds == IF s # <<>> /\ Head(s) = "+" THEN Tail(s) ELSE s
        sz == StripZeros(ds)
    IN IF ds = <<>> \/ \E i \in 1..Len(ds) : ~IsDigit(ds[i])
       THEN [ok |-> FALSE, value |-> 0]
       ELSE IF Overflows(sz)
       THEN [ok |-> TRUE, value |-> Horner(SubSeq(sz, Len(sz) - 8, Len(sz)), 0)]
       ELSE [ok |-> TRUE, value |-> Horner(ds, 0)]

\* str::parse::<u32>: Ok(value), or Err on an empty string, a character that
\* is no digit (one leading "+" is allowed), or a value above u32::MAX.
ParseU32(s) ==
    LET ds == IF s # <<>> /\ Head(s) = "+" THEN Tail(s) ELSE s
    IN IF ds = <<>> \/ \E i \in 1..Len(ds) : ~IsDigit(ds[i])
       THEN [ok |-> FALSE, value |-> 0]
       ELSE IF Overflows(StripZeros(ds))
       THEN [ok |-> FALSE, value |-> 0]
       ELSE [ok |-> TRUE, value |-> Horner(ds, 0)]

\* Display of a u32: its decimal digits.
RECURSIVE U32ToString(_)
U32ToString(n) ==
    IF n < 10 THEN <<Digits[n + 1]>>
    ELSE U32ToString(n \div 10) \o <<Digits[(n % 10) + 1]>>

-----------------------------------------------------------------------------
(* The classifier: IGNORES, EXCEPTIONS and is_valid.  Both sets are built   *)
(* case-insensitive; every pattern is matched on the normalized command.    *)

S_cd == <<"c", "d", " ">>

S_ls == <<"l", "s", " ">>

S_reboot == <<" ", "r", "e", "b", "o", "o", "t">>

S_shutdown == <<" ", "s", "h", "u", "t", "d", "o", "w", "n">>

S_halt == <<" ", "h", "a", "l", "t">>

S_sudo == <<"s", "u", "d", "o">>

S_api == <<"a", "p", "i">>

S_token == <<"t", "o", "k", "e", "n">>

S_key == <<"k", "e", "y">>

S_secret == <<"s", "e", "c", "r", "e", "t">>

S_pass == <<"p", "a", "s", "s">>

S_pass_c == <<"p", "a", "s", "s", " ", "-", "c">>

\* "^.{1,3}$": one to three characters, none of them a newline.
IgnoreShort(s) ==
    /\ Len(s) \in 1..3
    /\ \A i \in 1..Len(s) : s[i] # "\n"

\* The two patterns with the character class not negated: "^cd [~/]".
IgnoreRelativeInverted(s, verb) ==
    /\ StartsWith(s, verb)
    /\ Len(s) > Len(verb)
    /\ s[Len(verb) + 1] \in {"~", "/"}

\* "^cd [^~/]" and "^ls [^~/]"
IgnoreRelative(s, verb) ==
    /\ StartsWith(s, verb)
    /\ Len(s) > Len(verb)
    /\ s[Len(verb) + 1] \notin {"~", "/"}

\* "^(sudo)? reboot", "^(sudo)? shutdown", "^(sudo)? halt": the group is
\* optional, the space before the word is not.
IgnorePower(s, word) ==
    \/ StartsWith(s, word)
    \/ StartsWith(s, S_sudo \o word)

\* "^0"
IgnoreMouse(s) == StartsWith(s, <<"0">>)

\* "^ "
IgnoreHidden(s) == StartsWith(s, <<" ">>)

\* "(api|token|key|secret|pass)"
IgnoreSensitive(s) ==
    \E w \in {S_api, S_token, S_key, S_secret, S_pass} : Contains(s, w)

\* The ignore set without its last pattern.
IgnoresMatchNoSensitive(s) ==
    \/ IgnoreShort(s)
    \/ IgnoreRelative(s, S_cd)
    \/ IgnoreRelative(s, S_ls)
    \/ IgnorePower(s, S_reboot)
    \/ IgnorePower(s, S_shutdown)
    \/ IgnorePower(s, S_halt)
    \/ IgnoreMouse(s)
    \/ IgnoreHidden(s)

\* RegexSet(IGNORES).is_match
IgnoresMatch(s) ==
    \/ IgnoreShort(s)
    \/ IgnoreRelative(s, S_cd)
    \/ IgnoreRelative(s, S_ls)
    \/ IgnorePower(s, S_reboot)
    \/ IgnorePower(s, S_shutdown)
    \/ IgnorePower(s, S_halt)
    \/ IgnoreMouse(s)
    \/ IgnoreHidden(s)
    \/ IgnoreSensitive(s)

\* RegexSet(EXCEPTIONS).is_match: "^pass -c"
ExceptionsMatch(s) == StartsWith(s, S_pass_c)

is_valid_IgnoresFirst(line) ==
    IF IgnoresMatch(line) THEN FALSE
    ELSE TRUE

is_valid(line) ==
    IF ExceptionsMatch(line) THEN TRUE
    ELSE IF IgnoresMatch(line) THEN FALSE
    ELSE TRUE

-----------------------------------------------------------------------------
(* HistoryCommand, its order, the fold into the map, sort and Display.      *)

HistoryCommand(ts, cmd) == [timestamp |-> ts, command |-> cmd]

\* An order that compares the command first.
HistoryCommandLessByCommand(a, b) ==
    \/ StrLess(a.command, b.command)
    \/ a.command = b.command /\ a.timestamp < b.timestamp

\* Ord for HistoryCommand: timestamp, then command.
HistoryCommandLess(a, b) ==
    \/ a.timestamp < b.timestamp
    \/ a.timestamp = b.timestamp /\ StrLess(a.command, b.command)

\* The fold step with the timestamp overwritten on every retained record.
FoldLastWins(h, hc) ==
    [c \in DOMAIN h \cup {hc.command} |->
        IF c = hc.command THEN hc.timestamp ELSE h[c]]

\* The fold step with the comparison reversed: *ts > timestamp.
FoldLowers(h, hc) ==
    [c \in DOMAIN h \cup {hc.command} |->
        IF c # hc.command THEN h[c]
        ELSE IF c \notin DOMAIN h THEN hc.timestamp
        ELSE IF h[c] > hc.timestamp THEN hc.timestamp
        ELSE h[c]]

\* let ts = history.entry(command).or_insert(timestamp);
\* if *ts < timestamp { *ts = timestamp }
Fold(h, hc) ==
    [c \in DOMAIN h \cup {hc.command} |->
        IF c # hc.command THEN h[c]
        ELSE IF c \notin DOMAIN h THEN hc.timestamp
        ELSE IF h[c] < hc.timestamp THEN hc.timestamp
        ELSE h[c]]

\* slice::sort, a stable sort by Ord.
RECURSIVE Insert(_, _)
Insert(sorted, x) ==
    IF sorted = <<>> THEN <<x>>
    ELSE IF HistoryCommandLess(x, Head(sorted)) THEN <<x>> \o sorted
    ELSE <<Head(sorted)>> \o Insert(Tail(sorted), x)

RECURSIVE Sort(_)
Sort(v) ==
    IF v = <<>> THEN <<>> ELSE Insert(Sort(SubSeq(v, 1, Len(v) - 1)), v[Len(v)])

\* history.into_iter() in some order of the map's keys.
Orders(h) ==
    {o \in [1..Cardinality(DOMAIN h) -> DOMAIN h] :
        \A i, j \in DOMAIN o : i # j => o[i] # o[j]}

Collected(h, o) == [i \in DOMAIN o |-> HistoryCommand(h[o[i]], o[i])]

\* Display for HistoryCommands: "#<timestamp>\n<command>\n" per record.
RECURSIVE Fmt(_)
Fmt(v) ==
    IF v = <<>> THEN <<>>
    ELSE <<"#">> \o U32ToString(v[1].timestamp) \o <<"\n">>
         \o v[1].command \o <<"\n">> \o Fmt(Tail(v))

-----------------------------------------------------------------------------
(* The inputs explored.                                                     *)

L_123 == <<"#", "1", "2", "3">>

L_456 == <<"#", "4", "5", "6">>

L_overflow == <<"#", "4", "2", "9", "4", "9", "6", "7", "2", "9", "6">>

L_echo_foo == <<"e", "c", "h", "o", " ", "f", "o", "o">>

L_echo_bar == <<"e", "c", "h", "o", " ", "b", "a", "r">>

L_indented_marker == <<" ", "#", "1", "2", "3">>

ParseVocab == {L_123, L_456, L_overflow, L_echo_foo, L_echo_bar, L_indented_marker}

Prefixes ==
    {<<>>,
     <<"s", "u", "d", "o", " ">>,
     <<"p", "a", "s", "s", " ", "-", "c", " ">>,
     <<"P", "A", "S", "S", " ", "-", "C", " ">>}

Bodies ==
    {<<"r", "e", "b", "o", "o", "t">>,
     <<"s", "h", "u", "t", "d", "o", "w", "n">>,
     <<"h", "a", "l", "t">>,
     <<"f", "o", "o", " ", "b", "a", "r">>,
     <<"T", "o", "k", "e", "n">>}

ClassifyCommands == {p \o b : p \in Prefixes, b \in Bodies}

RECURSIVE JoinLines(_)
JoinLines(ls) ==
    IF ls = <<>> THEN <<>> ELSE Head(ls) \o <<"\n">> \o JoinLines(Tail(ls))

RECURSIVE Records(_)
Records(cs) ==
    IF cs = <<>> THEN <<>> ELSE <<L_123, Head(cs)>> \o Records(Tail(cs))

LineInputs ==
    {JoinLines(ls) : ls \in UNION {[1..n -> ParseVocab] : n \in 0..MaxLines}}

RecordInputs ==
    {JoinLines(Records(cs)) :
        cs \in UNION {[1..n -> ClassifyCommands] : n \in 1..MaxRecords}}

Inputs == LineInputs \cup RecordInputs

\* Short commands and cd / ls with relative and absolute paths.
L_cd == <<"c", "d">>

L_ls_foo == <<"l", "s", " ", "f", "o", "o">>

L_cd_relative == <<"c", "d", " ", ".", "/", "b", "a", "r">>

L_cd_absolute == <<"c", "d", " ", "/", "t", "m", "p">>

L_ls_home == <<"l", "s", " ", "~">>

NavVocab ==
    {L_123, L_overflow, L_cd, L_ls_foo, L_cd_relative, L_cd_absolute,
     L_ls_home}

NavInputs ==
    {JoinLines(ls) : ls \in UNION {[1..n -> NavVocab] : n \in 0..MaxLines}}

\* Blank lines and commands padded with spaces and tabs.
L_empty == <<>>

L_space == <<" ">>

L_padded == <<" ", "e", "c", "h", "o", "\t", " ", "f", "o", "o", " ">>

BlankVocab == {L_123, L_overflow, L_empty, L_space, L_echo_foo, L_padded}

BlankInputs ==
    {JoinLines(ls) : ls \in UNION {[1..n -> BlankVocab] : n \in 0..MaxLines}}

-----------------------------------------------------------------------------
(* The program.                                                             *)

\* The directories a temporary file can be created in: NamedTempFile::new()
\* uses std::env::temp_dir(), which may or may not be the directory of
\* the history file.
HistoryDir == "history_dir"

TempDirs == {HistoryDir, "temp_dir"}

NoDir == "none"

Init ==
    /\ file \in Inputs
    /\ input = <<>>
    /\ data = <<>>
    /\ next_timestamp = None
    /\ command = <<>>
    /\ timestamp = None
    /\ history = <<>>
    /\ new_commands = <<>>
    /\ result = "none"
    /\ stderr = <<>>
    /\ yielded = <<>>
    /\ pc = "start"
    /\ rerun = FALSE
    /\ tmp = None
    /\ tmp_dir = NoDir

\* run: read the history file; clean_history: the empty map and the
\* iterator over the lines of the input.  A finished run may be followed by
\* another run on the file it wrote.
Run ==
    /\ pc \in {"start", "done"}
    /\ rerun' = (pc = "done")
    /\ input' = file
    /\ data' = Lines(file)
    /\ next_timestamp' = None
    /\ command' = <<>>
    /\ timestamp' = None
    /\ history' = <<>>
    /\ new_commands' = <<>>
    /\ result' = "none"
    /\ stderr' = <<>>
    /\ yielded' = <<>>
    /\ pc' = "next"
    /\ UNCHANGED <<file, tmp, tmp_dir>>

\* The pending timestamp after a marker line read while the buffer is empty,
\* were the first marker of a run kept.
PendingKeepFirst(pending, line) == IF pending = None THEN Some(line) ELSE pending

\* self.next_timestamp = Some(line)
Pending(pending, line) == Some(line)

\* next, first arm: a marker line while the command buffer is empty.
TakeTimestamp ==
    /\ pc = "next"
    /\ data # <<>>
    /\ IsTimestampLine(Head(data)) /\ command = <<>>
    /\ next_timestamp' = Pending(next_timestamp, Head(data))
    /\ data' = Tail(data)
    /\ UNCHANGED <<tmp, tmp_dir, file, input, command, timestamp, history,
                   new_commands, result, stderr, yielded, pc, rerun>>

\* next, second arm: a marker line while the command buffer is not empty.
CloseOnTimestamp ==
    /\ pc = "next"
    /\ data # <<>>
    /\ IsTimestampLine(Head(data)) /\ command # <<>>
    /\ timestamp' = next_timestamp
    /\ next_timestamp' = Some(Head(data))
    /\ data' = Tail(data)
    /\ pc' = "emit"
    /\ UNCHANGED <<tmp, tmp_dir, file, input, command, history, new_commands,
                   result, stderr, yielded, rerun>>

\* command += line
Accumulated(cmd, line) == cmd \o line

\* next, third arm: any other line.
Accumulate ==
    /\ pc = "next"
    /\ data # <<>>
    /\ ~IsTimestampLine(Head(data))
    /\ command' = Accumulated(command, Head(data))
    /\ data' = Tail(data)
    /\ UNCHANGED <<tmp, tmp_dir, file, input, next_timestamp, timestamp,
                   history, new_commands, result, stderr, yielded, pc, rerun>>

\* next, fourth arm: the lines are exhausted.
EndOfInput ==
    /\ pc = "next"
    /\ data = <<>>
    /\ timestamp' = next_timestamp
    /\ next_timestamp' = None
    /\ pc' = "emit"
    /\ UNCHANGED <<tmp, tmp_dir, file, input, data, command, history,
                   new_commands, result, stderr, yielded, rerun>>

\* The index, among the lines of the input, of the last line of the unit
\* that next is closing: the line before the closing marker, or the last.
UnitEnd ==
    IF next_timestamp = None THEN Len(Lines(input))
    ELSE Len(Lines(input)) - Len(data) - 1

\* The parse of the marker line with its "#" left in place.
ParsedKeepsHash == ParseU32(Trim(timestamp[1]))

\* v.trim().trim_start_matches("#").parse()
Parsed == ParseU32(TrimStartHash(Trim(timestamp[1])))

Item(kind, ts, cmd) ==
    [kind |-> kind, timestamp |-> ts, command |-> cmd, last |-> UnitEnd]

\* next returns None (no timestamp is pending): the for loop ends.
ReturnNone ==
    /\ pc = "emit"
    /\ timestamp = None
    /\ pc' = "collect"
    /\ UNCHANGED <<tmp, tmp_dir, file, input, data, next_timestamp, command,
                   timestamp, history, new_commands, result, stderr, yielded,
                   rerun>>

\* next returns Err("{e}, {command}"): the loop body writes it to stderr.
YieldParseError ==
    /\ pc = "emit"
    /\ timestamp # None
    /\ ~Parsed.ok
    /\ LET item == Item("ParseIntError", 0, Normalize(command))
       IN /\ yielded' = Append(yielded, item)
          /\ stderr' = Append(stderr, item)
    /\ command' = <<>>
    /\ pc' = "next"
    /\ UNCHANGED <<tmp, tmp_dir, file, input, data, next_timestamp, timestamp,
                   history, new_commands, result, rerun>>

\* next returns Err("command was empty for timestamp {}").
YieldEmptyCommand ==
    /\ pc = "emit"
    /\ timestamp # None
    /\ Parsed.ok
    /\ Normalize(command) = <<>>
    /\ LET item == Item("EmptyCommand", Parsed.value, <<>>)
       IN /\ yielded' = Append(yielded, item)
          /\ stderr' = Append(stderr, item)
    /\ command' = <<>>
    /\ pc' = "next"
    /\ UNCHANGED <<tmp, tmp_dir, file, input, data, next_timestamp, timestamp,
                   history, new_commands, result, rerun>>

\* next returns Ok(HistoryCommand): the loop body folds it into the map when
\* is_valid retains its command.
YieldOk ==
    /\ pc = "emit"
    /\ timestamp # None
    /\ Parsed.ok
    /\ Normalize(command) # <<>>
    /\ LET hc == HistoryCommand(Parsed.value, Normalize(command))
       IN /\ yielded' = Append(yielded, Item("Ok", hc.timestamp, hc.command))
          /\ history' = IF is_valid(hc.command) THEN Fold(history, hc) ELSE history
    /\ command' = <<>>
    /\ pc' = "next"
    /\ UNCHANGED <<tmp, tmp_dir, file, input, data, next_timestamp, timestamp,
                   new_commands, result, stderr, rerun>>

\* clean_history after the loop: collect the map in its iteration order,
\* sort, return Ok.
Collect ==
    /\ pc = "collect"
    /\ \E o \in Orders(history) : new_commands' = Sort(Collected(history, o))
    /\ result' = "Ok"
    /\ pc' = "cleaned"
    /\ UNCHANGED <<tmp, tmp_dir, file, input, data, next_timestamp, command,
                   timestamp, history, stderr, yielded, rerun>>

\* A step of write_history took an I/O error that the code did not
\* propagate.
AfterIoErrorIgnored == "persist"

\* The `?` after NamedTempFile::new(), write! and persist: an I/O error
\* ends write_history, and run, with that error.
AfterIoError == "failed"

\* The number of records whose text the temporary file holds.
RecordsWritten == Len(Lines(tmp[1])) \div 2

\* write_history: NamedTempFile::new() creates an empty temporary file.
CreateTemp ==
    /\ pc = "cleaned"
    /\ result = "Ok"
    /\ \E d \in TempDirs : tmp_dir' = d
    /\ tmp' = Some(<<>>)
    /\ pc' = IF new_commands = <<>> THEN "persist" ELSE "write"
    /\ UNCHANGED <<file, input, data, next_timestamp, command, timestamp,
                   history, new_commands, result, stderr, yielded, rerun>>

\* write_history: NamedTempFile::new() fails.
CreateTempFails ==
    /\ pc = "cleaned"
    /\ result = "Ok"
    /\ pc' = "failed"
    /\ UNCHANGED <<file, input, data, next_timestamp, command, timestamp,
                   history, new_commands, result, stderr, yielded, rerun,
                   tmp, tmp_dir>>

\* write_history: write! appends the text of the next record to the
\* temporary file.
WriteRecord ==
    /\ pc = "write"
    /\ tmp' = Some(tmp[1] \o Fmt(<<new_commands[RecordsWritten + 1]>>))
    /\ pc' = IF RecordsWritten + 1 = Len(new_commands) THEN "persist"
             ELSE "write"
    /\ UNCHANGED <<file, input, data, next_timestamp, command, timestamp,
                   history, new_commands, result, stderr, yielded, rerun,
                   tmp_dir>>

\* write_history: write! fails with part of the text written; on the
\* error return the temporary file is dropped, which removes it.
WriteFails ==
    /\ pc = "write"
    /\ pc' = AfterIoError
    /\ IF AfterIoError = "failed"
       THEN tmp' = None /\ tmp_dir' = NoDir
       ELSE UNCHANGED <<tmp, tmp_dir>>
    /\ UNCHANGED <<file, input, data, next_timestamp, command, timestamp,
                   history, new_commands, result, stderr, yielded, rerun>>

\* write_history: persist renames the temporary file over the history file.
Persist ==
    /\ pc = "persist"
    /\ file' = tmp[1]
    /\ tmp' = None
    /\ tmp_dir' = NoDir
    /\ pc' = "done"
    /\ UNCHANGED <<input, data, next_timestamp, command, timestamp, history,
                   new_commands, result, stderr, yielded, rerun>>

\* write_history: the rename fails (for one, across file systems); the
\* history file is as it was and the temporary file is removed.
PersistFails ==
    /\ pc = "persist"
    /\ tmp' = None
    /\ tmp_dir' = NoDir
    /\ pc' = "failed"
    /\ UNCHANGED <<file, input, data, next_timestamp, command, timestamp,
                   history, new_commands, result, stderr, yielded, rerun>>

Next ==
    \/ Run
    \/ TakeTimestamp
    \/ CloseOnTimestamp
    \/ Accumulate
    \/ EndOfInput
    \/ ReturnNone
    \/ YieldParseError
    \/ YieldEmptyCommand
    \/ YieldOk
    \/ Collect
    \/ CreateTemp
    \/ CreateTempFails
    \/ WriteRecord
    \/ WriteFails
    \/ Persist
    \/ PersistFails

Spec == Init /\ [][Next]_vars

\* The state before run, but for the content of the history file.
Fresh ==
    /\ input = <<>>
    /\ data = <<>>
    /\ next_timestamp = None
    /\ command = <<>>
    /\ timestamp = None
    /\ history = <<>>
    /\ new_commands = <<>>
    /\ result = "none"
    /\ stderr = <<>>
    /\ yielded = <<>>
    /\ pc = "start"
    /\ rerun = FALSE
    /\ tmp = None
    /\ tmp_dir = NoDir

InitNav == file \in NavInputs /\ Fresh

SpecNav == InitNav /\ [][Next]_vars

InitBlank == file \in BlankInputs /\ Fresh

SpecBlank == InitBlank /\ [][Next]_vars

-----------------------------------------------------------------------------
(* Vocabulary of the properties.                                            *)

\* clean_history has returned its vector.
Cleaned == pc \in {"cleaned", "done"}

\* The yielded records that the classifier retains.
Retained ==
    {k \in 1..Len(yielded) :
        yielded[k].kind = "Ok" /\ is_valid(yielded[k].command)}

\* The index of the last marker line among ls[1..n], 0 when there is none.
LastMarker(ls, n) ==
    CHOOSE j \in 0..n :
        /\ j = 0 \/ IsTimestampLine(ls[j])
        /\ \A k \in (j + 1)..n : ~IsTimestampLine(ls[k])

\* The value written on the marker line l.
MarkerValue(l) == ParseU32(Tail(l))

NonBlank(l) == Normalize(l) # <<>>

\* The command lines of the unit whose last line is ls[n].
UnitLines(ls, n) == SelectSeq(SubSeq(ls, LastMarker(ls, n) + 1, n), NonBlank)

OutputCommands == {new_commands[i].command : i \in 1..Len(new_commands)}

-----------------------------------------------------------------------------
\* C1: in the output of clean_history every command text appears once, and
\* its timestamp is the maximum timestamp of the parsed, retained records
\* with that command, wherever they stand in the input; every retained
\* command is in the output.
C1_DedupMaxTimestamp ==
    Cleaned =>
        /\ \A i, j \in 1..Len(new_commands) :
              i # j => new_commands[i].command # new_commands[j].command
        /\ \A i \in 1..Len(new_commands) :
              LET same == {k \in Retained :
                              yielded[k].command = new_commands[i].command}
              IN /\ \E k \in same :
                        yielded[k].timestamp = new_commands[i].timestamp
                 /\ \A k \in same :
                        yielded[k].timestamp <= new_commands[i].timestamp
        /\ \A k \in Retained : yielded[k].command \in OutputCommands

\* An earlier record with a later timestamp has beaten a later record of the
\* same command.
C1_Witness ==
    /\ Cleaned
    /\ \E k1, k2 \in Retained :
          /\ k1 < k2
          /\ yielded[k1].command = yielded[k2].command
          /\ yielded[k1].timestamp > yielded[k2].timestamp
          /\ \E i \in 1..Len(new_commands) :
                /\ new_commands[i].command = yielded[k1].command
                /\ new_commands[i].timestamp = yielded[k1].timestamp

\* C2: the vector clean_history returns is sorted by timestamp ascending
\* and, for equal timestamps, by command ascending (byte order), and it is
\* the same for every iteration order of the map.
C2_Sorted ==
    Cleaned =>
        /\ \A i \in 1..(Len(new_commands) - 1) :
              \/ new_commands[i].timestamp < new_commands[i + 1].timestamp
              \/ /\ new_commands[i].timestamp = new_commands[i + 1].timestamp
                 /\ StrLess(new_commands[i].command, new_commands[i + 1].command)
        /\ \A o \in Orders(history) : Sort(Collected(history, o)) = new_commands

\* Two records of equal timestamp, emitted in the reverse of their input order.
C2_Witness ==
    /\ Cleaned
    /\ Len(new_commands) = 2
    /\ new_commands[1].timestamp = new_commands[2].timestamp
    /\ Len(yielded) = 2
    /\ yielded[1].command = new_commands[2].command
    /\ yielded[2].command = new_commands[1].command

\* C3: a run on the file a run has written leaves the file as it was:
\* P(P(x)) = P(x).
C3_Idempotent == (pc = "done" /\ rerun) => file = input

\* C4: the command of a yielded record is the non-blank lines of its unit,
\* in input order, joined with "; ".
C4_MultiLineJoin ==
    \A k \in 1..Len(yielded) :
        yielded[k].kind = "Ok" =>
            LET ls == UnitLines(Lines(input), yielded[k].last)
            IN yielded[k].command =
                   Join([i \in 1..Len(ls) |-> Normalize(ls[i])], <<";", " ">>)

\* A bad unit stands before line i: an orphan command at the start of the
\* input, a marker whose digits do not parse, or a marker without command.
BadUnitBefore(ls, i) ==
    \/ i > 1 /\ ~IsTimestampLine(ls[1]) /\ NonBlank(ls[1])
    \/ \E j \in 1..(i - 1) : IsTimestampLine(ls[j]) /\ ~MarkerValue(ls[j]).ok
    \/ \E j \in 1..(i - 2) : IsTimestampLine(ls[j]) /\ IsTimestampLine(ls[j + 1])

\* ls[i] is a marker with a parseable value, followed by one command line,
\* followed by a marker or the end of the input.
WellFormedAt(ls, i) ==
    /\ i + 1 <= Len(ls)
    /\ IsTimestampLine(ls[i]) /\ MarkerValue(ls[i]).ok
    /\ ~IsTimestampLine(ls[i + 1]) /\ NonBlank(ls[i + 1])
    /\ i + 2 <= Len(ls) => IsTimestampLine(ls[i + 2])

\* C5: a bad parse unit is dropped and the parser continues: every
\* well-formed retained record after it is in the output of clean_history.
C5_ParseErrorsNonFatal ==
    Cleaned =>
        LET ls == Lines(input)
        IN \A i \in 1..Len(ls) :
              (/\ BadUnitBefore(ls, i)
               /\ WellFormedAt(ls, i)
               /\ is_valid(Normalize(ls[i + 1])))
              => Normalize(ls[i + 1]) \in OutputCommands

\* C6: with no retained record, clean_history returns the error
\* "no valid commands".
C6_EmptyIsError ==
    (Cleaned /\ new_commands = <<>>) => result = "no valid commands"

\* C7: a yielded record carries the value of the last marker line before
\* its command lines, and its unit ends on a command line: markers that a
\* later marker replaced give no record.
C7_LastMarkerWins ==
    Cleaned =>
        \A k \in 1..Len(yielded) :
            yielded[k].kind = "Ok" =>
                LET ls == Lines(input)
                    j == LastMarker(ls, yielded[k].last)
                IN /\ j > 0
                   /\ MarkerValue(ls[j]).ok
                   /\ MarkerValue(ls[j]).value = yielded[k].timestamp
                   /\ ~IsTimestampLine(ls[yielded[k].last])
                   /\ \A k2 \in 1..Len(yielded) :
                         k2 < k => yielded[k2].last < j

\* A record whose command follows two consecutive markers, the first of
\* them the greater, is in the output with the value of the second.
C7_Witness ==
    /\ Cleaned
    /\ \E k \in 1..Len(yielded) :
          /\ yielded[k].kind = "Ok"
          /\ LET ls == Lines(input)
                 j == LastMarker(ls, yielded[k].last)
             IN /\ j > 1
                /\ IsTimestampLine(ls[j - 1])
                /\ MarkerValue(ls[j - 1]).ok
                /\ MarkerValue(ls[j - 1]).value > yielded[k].timestamp
          /\ \E i \in 1..Len(new_commands) :
                /\ new_commands[i].command = yielded[k].command
                /\ new_commands[i].timestamp = yielded[k].timestamp

SensitiveWords ==
    {<<"a", "p", "i">>, <<"t", "o", "k", "e", "n">>, <<"k", "e", "y">>,
     <<"s", "e", "c", "r", "e", "t">>, <<"p", "a", "s", "s">>}

LooksSensitive(s) == \E w \in SensitiveWords : Contains(s, w)

BeginsPassC(s) == MatchAt(s, <<"p", "a", "s", "s", " ", "-", "c">>, 1)

\* C8: every command of the output that contains api, token, key, secret
\* or pass (in any case) begins with "pass -c" (in any case), and so does
\* every such line of the file written back.
C8_SensitiveExcluded ==
    /\ Cleaned =>
          \A c \in OutputCommands : LooksSensitive(c) => BeginsPassC(c)
    /\ pc = "done" =>
          \A i \in 1..Len(Lines(file)) :
              LooksSensitive(Lines(file)[i]) => BeginsPassC(Lines(file)[i])

\* The input held a sensitive command that is not in the output and a
\* "pass -c" command that is.
C8_Witness ==
    /\ pc = "done"
    /\ \E c \in OutputCommands : LooksSensitive(c) /\ BeginsPassC(c)
    /\ \E k \in 1..Len(yielded) :
          /\ yielded[k].kind = "Ok"
          /\ LooksSensitive(yielded[k].command)
          /\ yielded[k].command \notin OutputCommands

\* C9: a yielded command that matches the exception pattern is in the
\* output whatever ignore pattern it matches; one that matches neither set
\* is in the output; one that matches only an ignore pattern is not.
C9_ExceptionsFirst ==
    Cleaned =>
        \A k \in 1..Len(yielded) :
            yielded[k].kind = "Ok" =>
                LET c == yielded[k].command
                IN /\ BeginsPassC(c) => c \in OutputCommands
                   /\ (~BeginsPassC(c) /\ ~IgnoresMatch(c)) => c \in OutputCommands
                   /\ (~BeginsPassC(c) /\ IgnoresMatch(c)) => c \notin OutputCommands

\* A command matching both sets was kept and one matching only an ignore
\* pattern was dropped.
C9_Witness ==
    /\ Cleaned
    /\ \E k \in 1..Len(yielded) :
          /\ yielded[k].kind = "Ok"
          /\ BeginsPassC(yielded[k].command)
          /\ IgnoresMatch(yielded[k].command)
          /\ yielded[k].command \in OutputCommands
    /\ \E k \in 1..Len(yielded) :
          /\ yielded[k].kind = "Ok"
          /\ ~BeginsPassC(yielded[k].command)
          /\ IgnoresMatch(yielded[k].command)
          /\ yielded[k].command \notin OutputCommands

PowerWords ==
    {<<"r", "e", "b", "o", "o", "t">>, <<"s", "h", "u", "t", "d", "o", "w", "n">>, <<"h", "a", "l", "t">>}

\* s is or begins with reboot, shutdown or halt, with or without "sudo ".
IsPowerCommand(s) ==
    \E w \in PowerWords :
        MatchAt(s, w, 1) \/ MatchAt(s, <<"s", "u", "d", "o", " ">> \o w, 1)

\* C10: no command of the output is or begins with reboot, shutdown or
\* halt, bare or prefixed by "sudo ".
C10_PowerCommandsDropped ==
    Cleaned => \A c \in OutputCommands : ~IsPowerCommand(c)

ShortOrRelative(c) ==
    \/ Len(c) \in 1..3
    \/ \E verb \in {<<"c", "d", " ">>, <<"l", "s", " ">>} :
          /\ MatchAt(c, verb, 1)
          /\ Len(c) > Len(verb)
          /\ c[Len(verb) + 1] \notin {"~", "/"}

\* C11: no command of the output is 1 to 3 characters long or is "cd " or
\* "ls " followed by a path that does not begin with "~" or "/"; every
\* other retained record of the input is in the output with a timestamp
\* that is at least its own.
C11_ShortAndRelativeSkipped ==
    Cleaned =>
        /\ \A c \in OutputCommands : ~ShortOrRelative(c)
        /\ \A k \in 1..Len(yielded) :
              (/\ yielded[k].kind = "Ok"
               /\ ~ShortOrRelative(yielded[k].command)
               /\ ~IgnoresMatch(yielded[k].command))
              => \E i \in 1..Len(new_commands) :
                    /\ new_commands[i].command = yielded[k].command
                    /\ new_commands[i].timestamp >= yielded[k].timestamp

\* A short or relative command was dropped and a cd or ls to an absolute
\* or home path of the same input is in the output.
C11_Witness ==
    /\ Cleaned
    /\ \E k \in 1..Len(yielded) :
          /\ yielded[k].kind = "Ok"
          /\ ShortOrRelative(yielded[k].command)
          /\ yielded[k].command \notin OutputCommands
    /\ \E c \in OutputCommands :
          MatchAt(c, <<"c", "d", " ">>, 1) \/ MatchAt(c, <<"l", "s", " ">>, 1)

\* The text that next accumulated for the yielded item k: the lines
\* from the one after its marker to its last, with nothing between them.
RawCommand(k) ==
    LET ls == Lines(input)
        n == yielded[k].last
    IN Join(SubSeq(ls, LastMarker(ls, n) + 1, n), <<>>)

SameButWhitespace(j, k) ==
    SplitWhitespace(RawCommand(j), <<>>) = SplitWhitespace(RawCommand(k), <<>>)

C13_AtomicReplace ==
    pc # "start" =>
        \/ file = input
        \/ pc = "done" /\ file = Fmt(new_commands)

\* The temporary file holds a part of the new text, which differs from the
\* original, and the history file still holds the original.
C13_Witness ==
    /\ pc = "write"
    /\ tmp # None
    /\ tmp[1] # <<>>
    /\ tmp[1] # Fmt(new_commands)
    /\ file = input
    /\ file # Fmt(new_commands)

\* C19: whenever the temporary file of write_history exists, it is in the
\* directory of the history file.
C19_TempInHistoryDir == tmp # None => tmp_dir = HistoryDir

\* The digits written on the marker line l, leading zeros apart.
MarkerDigits(l) == StripZeros(Tail(l))

\* The marker line of the yielded item k is written with a value above
\* u32::MAX.
MarkerOverflows(k) ==
    LET ls == Lines(input)
        m == LastMarker(ls, yielded[k].last)
    IN m > 0 /\ Overflows(MarkerDigits(ls[m]))

\* C17: an item whose marker denotes a value above 2^32-1 is a parse error
\* that carries the normalized command text; every timestamp of the output
\* is at most 2^32-1 and is, digit for digit, the value of a marker line
\* of the input.
C17_TimestampRange ==
    Cleaned =>
        /\ \A k \in 1..Len(yielded) :
              MarkerOverflows(k) =>
                  /\ yielded[k].kind = "ParseIntError"
                  /\ yielded[k].command = Normalize(RawCommand(k))
        /\ \A i \in 1..Len(new_commands) :
              LET ds == U32ToString(new_commands[i].timestamp)
                  ls == Lines(input)
              IN /\ ~Overflows(ds)
                 /\ \E n \in 1..Len(ls) :
                       IsTimestampLine(ls[n]) /\ MarkerDigits(ls[n]) = ds

\* A command under a marker above 2^32-1 was yielded as a parse error and
\* is not in the output, which holds another record.
C17_Witness ==
    /\ Cleaned
    /\ new_commands # <<>>
    /\ \E k \in 1..Len(yielded) :
          /\ MarkerOverflows(k)
          /\ yielded[k].kind = "ParseIntError"
          /\ yielded[k].command # <<>>
          /\ yielded[k].command \notin OutputCommands

\* The map holds, for every command retained so far, the maximum of the
\* timestamps of its records, and no other key.
MapIsMax ==
    /\ DOMAIN history = {yielded[k].command : k \in Retained}
    /\ \A c \in DOMAIN history :
          /\ \E k \in Retained :
                yielded[k].command = c /\ yielded[k].timestamp = history[c]
          /\ \A k \in Retained :
                yielded[k].command = c => yielded[k].timestamp <= history[c]

\* One step of the for loop of clean_history: an item is yielded and the
\* loop body has run on it.
FoldStep == pc = "emit" /\ Len(yielded') = Len(yielded) + 1

\* The item of the step leaves the map as it is: an error, a rejected
\* record, or a record no later than the stored one.
LeavesMap(it) ==
    \/ it.kind # "Ok"
    \/ ~is_valid(it.command)
    \/ it.command \in DOMAIN history /\ it.timestamp <= history[it.command]

\* C18: after each step of the fold the map holds for every key the
\* maximum timestamp of the retained records folded so far; the step
\* removes no key, lowers no timestamp, changes at most the entry of the
\* item's command, and changes nothing for an error item, a rejected
\* record or a record whose timestamp is not greater than the stored one.
C18_FoldStepInvariant ==
    [][FoldStep =>
        LET it == yielded'[Len(yielded')]
        IN /\ MapIsMax'
           /\ DOMAIN history \subseteq DOMAIN history'
           /\ \A c \in DOMAIN history : history[c] <= history'[c]
           /\ \A c \in DOMAIN history' :
                 c # it.command => c \in DOMAIN history /\ history'[c] = history[c]
           /\ LeavesMap(it) => history' = history]_vars

\* The loop has just folded a retained record that is older than the
\* stored one of the same command; the map keeps the stored timestamp.
C18_Witness ==
    /\ pc = "next"
    /\ LET k == Len(yielded)
       IN /\ k \in Retained
          /\ \E j \in Retained :
                /\ j < k
                /\ yielded[j].command = yielded[k].command
                /\ yielded[j].timestamp > yielded[k].timestamp
                /\ history[yielded[k].command] = yielded[j].timestamp

\* The index of the first marker line of ls, Len(ls) + 1 when there is none.
FirstMarker(ls) ==
    CHOOSE j \in 1..(Len(ls) + 1) :
        /\ j = Len(ls) + 1 \/ IsTimestampLine(ls[j])
        /\ \A k \in 1..(j - 1) : ~IsTimestampLine(ls[k])

\* The input ends while a timestamp is pending: it has a marker line, and
\* no text before the first one (text there ends the iteration at that
\* marker).
PendingAtEof ==
    LET ls == Lines(input)
    IN /\ FirstMarker(ls) <= Len(ls)
       /\ \A k \in 1..(FirstMarker(ls) - 1) : ls[k] = <<>>

\* The items yielded for the unit that the end of the input closed.
FinalItems == {k \in 1..Len(yielded) : yielded[k].last = Len(Lines(input))}

\* The marker that was pending when the input ended.
FinalMarker ==
    LET ls == Lines(input) IN MarkerValue(ls[LastMarker(ls, Len(ls))])

\* The items before the last leave in the output what they would leave
\* alone.
EarlierRecordsKept ==
    \A k \in Retained :
        \E i \in 1..Len(new_commands) :
            /\ new_commands[i].command = yielded[k].command
            /\ new_commands[i].timestamp >= yielded[k].timestamp

BlankLineNext ==
    pc = "next" /\ data # <<>> /\ ~IsTimestampLine(Head(data))
                /\ ~NonBlank(Head(data))

\* C14: reading a blank line changes nothing of the parser but its place
\* in the input: the command buffer, the pending timestamp and the items
\* yielded stay as they are; and a marker read after nothing but blank
\* lines closes no record.
C14_BlankLinesIgnored ==
    [][/\ BlankLineNext =>
             /\ command' = command
             /\ next_timestamp' = next_timestamp
             /\ yielded' = yielded
             /\ pc' = pc
       /\ (pc = "next" /\ data # <<>> /\ IsTimestampLine(Head(data))
             /\ ~NonBlank(command)) => pc' = "next"]_vars

\* What the buffered blank line does to the output: a whitespace-only line
\* before the first marker has ended the iteration, and the record after
\* it is not in the output.
C14_BlankLineLosesRecord ==
    /\ Cleaned
    /\ Lines(input) = <<L_space, L_123, L_echo_foo>>
    /\ new_commands = <<>>

\* The accumulated text of the yielded record k begins with a space.
Hidden(k) == yielded[k].kind = "Ok" /\ RawCommand(k)[1] = " "

\* C16: a command whose every record in the input begins with a space is
\* not in the output of clean_history.
C16_HiddenDropped ==
    Cleaned =>
        \A k \in 1..Len(yielded) :
            (/\ Hidden(k)
             /\ \A j \in 1..Len(yielded) :
                   (yielded[j].kind = "Ok"
                        /\ yielded[j].command = yielded[k].command)
                   => Hidden(j))
            => yielded[k].command \notin OutputCommands

====
